---- MODULE Spec2Model ----
(***************************************************************************)
(* Model of generate-letter-counting-dataset.py: the response renderer     *)
(* (build_assistant_response / build_sample), the word/letter sampler      *)
(* (pick_letter_for_word / generate_samples) and the driver (load_words,   *)
(* main, push_to_hub).                                                     *)
(*                                                                         *)
(* A string is a sequence of characters; a character is a TLA+ string.     *)
(* Characters outside ASCII are named: "SIGMA" is U+03A3, "sigma" U+03C3,  *)
(* "fsigma" U+03C2 (final sigma), "IDOT" U+0130, "cdot" U+0307.            *)
(***************************************************************************)
EXTENDS Integers, Sequences, FiniteSets, TLC

\* ---- bounds of the model ------------------------------------------------
MaxN == 2
MaxWordLen == 3

\* ---- program constants --------------------------------------------------
MinLen == 3
MaxLen == 20
DefaultSeed == 42

AZ == <<"a","b","c","d","e","f","g","h","i","j","k","l","m",
        "n","o","p","q","r","s","t","u","v","w","x","y","z">>

VARIABLES
    \* renderer (build_assistant_response called on its own)
    word, letter, response, rpc,
    \* driver and sampler
    pc, file, n_samples, seed, words, err, word_pool, idx, branch, samples,
    saved, pushed,
    \* the seeded generator: the outcomes its stream has produced so far, and
    \* how many of them the current run has consumed
    tape, cursor,
    \* runs of the program on the same inputs
    run, prev

renderVars == <<word, letter, response, rpc>>
mainVars == <<pc, file, n_samples, seed, words, err, word_pool, idx, branch,
              samples, saved, pushed, tape, cursor, run, prev>>
vars == <<word, letter, response, rpc,
          pc, file, n_samples, seed, words, err, word_pool, idx, branch,
          samples, saved, pushed, tape, cursor, run, prev>>

None == "None"

\* ---- str.lower, str.strip, set, join -----------------------------------

Range(s) == {s[i] : i \in 1..Len(s)}

RECURSIVE Flatten(_)
Flatten(ss) == IF ss = <<>> THEN <<>> ELSE Head(ss) \o Flatten(Tail(ss))

\* Unicode properties of the characters of the model
Cased(c) == c \in Range(AZ) \cup {"A", "B", "SIGMA", "sigma", "fsigma", "IDOT"}
CaseIgnorable(c) == c \in {"cdot", "'"}

\* the lowercase mapping of one code point, without context
LowerMap(c) ==
    CASE c = "A" -> <<"a">>
      [] c = "B" -> <<"b">>
      [] c = "SIGMA" -> <<"sigma">>
      [] c = "IDOT" -> <<"i", "cdot">>
      [] OTHER -> <<c>>

\* U+03A3 at position i of s is in the Final_Sigma context
FinalSigma(s, i) ==
    LET before == {j \in 1..(i - 1) : ~CaseIgnorable(s[j])}
        after == {j \in (i + 1)..Len(s) : ~CaseIgnorable(s[j])}
        b == CHOOSE j \in before : \A k \in before : k <= j
        a == CHOOSE j \in after : \A k \in after : j <= k
    IN /\ before # {}
       /\ Cased(s[b])
       /\ (after = {} \/ ~Cased(s[a]))

\* str.lower()
Lower(s) ==
    Flatten([i \in 1..Len(s) |->
        IF s[i] = "SIGMA" /\ FinalSigma(s, i) THEN <<"fsigma">> ELSE LowerMap(s[i])])

IsSpace(c) == c \in {" ", "\t", "\n"}

RECURSIVE LStrip(_)
LStrip(s) == IF s # <<>> /\ IsSpace(Head(s)) THEN LStrip(Tail(s)) ELSE s

RECURSIVE RStrip(_)
RStrip(s) ==
    IF s # <<>> /\ IsSpace(s[Len(s)]) THEN RStrip(SubSeq(s, 1, Len(s) - 1)) ELSE s

\* str.strip()
Strip(s) == RStrip(LStrip(s))

\* ---- the renderer -------------------------------------------------------

RECURSIVE spell_out(_)
spell_out(w) ==
    IF Len(w) <= 1 THEN w ELSE <<Head(w), "-">> \o spell_out(Tail(w))

\* line 39
Target(l) == Lower(<<l>>)

IsMatchCaseSensitive(char, l) == <<char>> = <<l>>

\* line 41
IsMatch(char, l) == Lower(<<char>>) = Target(l)

StepCountResetting(count, char, l) == IF IsMatch(char, l) THEN count + 1 ELSE 0

\* lines 41-42: the count after the position holding char
StepCount(count, char, l) == IF IsMatch(char, l) THEN count + 1 ELSE count

\* lines 43 and 47: the text of one position line
PositionLine(i, char, l, count) ==
    [pos |-> i, char |-> char,
     verdict |-> IF IsMatch(char, l) THEN <<"MATCH">> ELSE <<"not", l>>,
     count |-> count]

RECURSIVE CheckPositions(_, _, _, _, _)
CheckPositions(w, l, i, count, lines) ==
    IF i > Len(w) THEN [count |-> count, lines |-> lines]
    ELSE LET c == StepCount(count, w[i], l)
         IN CheckPositions(w, l, i + 1, c, Append(lines, PositionLine(i, w[i], l, c)))

PluralWrong(count) == IF count > 1 THEN "times" ELSE "time"

\* line 51
Plural(count) == IF count # 1 THEN "times" ELSE "time"

build_assistant_response(w, l) ==
    LET r == CheckPositions(w, l, 1, 0, <<>>)
    IN [spelled |-> spell_out(w),
        lines |-> r.lines,
        answer |-> [letter |-> l, count |-> r.count,
                    unit |-> Plural(r.count), word |-> w]]

build_sample(w, l) ==
    [messages |-> <<
        [role |-> "user", content |-> [letter |-> l, word |-> w]],
        [role |-> "assistant", content |-> build_assistant_response(w, l)] >>]

\* ---- renderer on its own: inputs from bounded sets ----------------------

RenderChars == {"a", "b", "A", "SIGMA", "fsigma", "IDOT"}
RenderWords == UNION {[1..n -> RenderChars] : n \in 0..MaxWordLen}

MainIdle ==
    /\ pc = "idle" /\ file = <<>> /\ n_samples = 0 /\ seed = DefaultSeed
    /\ words = <<>> /\ err = None /\ word_pool = <<>> /\ idx = 0
    /\ branch = None /\ samples = <<>> /\ saved = FALSE /\ pushed = FALSE
    /\ tape = <<>> /\ cursor = 0 /\ run = 1 /\ prev = None

InitRender ==
    /\ word \in RenderWords
    /\ letter \in RenderChars \cup {"sigma"}
    /\ response = None
    /\ rpc = "call"
    /\ MainIdle

Render ==
    /\ rpc = "call"
    /\ response' = build_assistant_response(word, letter)
    /\ rpc' = "done"
    /\ UNCHANGED <<word, letter>>
    /\ UNCHANGED mainVars

NextRender == Render

SpecRender == InitRender /\ [][NextRender]_vars

\* ---- the sampler and the driver ----------------------------------------

\* the files the driver is run on: each a sequence of lines
Line(s) == s \o <<"\n">>
wAbb == <<"a", "b", "b">>
wAba == <<"A", "b", "a">>
wAbSigma == <<"a", "b", "SIGMA">>
wShort == <<"a", "b">>
wLongest == [i \in 1..MaxLen |-> "a"]
wTooLong == [i \in 1..(MaxLen + 1) |-> "a"]

Files ==
    { <<>>,
      << Line(<<" ">>), Line(<<>>) >>,
      << Line(wTooLong), Line(<<" ">> \o wShort) >>,
      << Line(<<" ">> \o wAbb \o <<" ">>), Line(wAbb), Line(wShort) >>,
      << Line(wAba), wAbSigma >>,
      << Line(wLongest), Line(<<>>), wTooLong >> }

Seeds == {DefaultSeed}

Init ==
    /\ pc = "load"
    /\ file \in Files
    /\ n_samples \in 0..MaxN
    /\ seed \in Seeds
    /\ words = <<>> /\ err = None /\ word_pool = <<>> /\ idx = 0
    /\ branch = None /\ samples = <<>> /\ saved = FALSE /\ pushed = FALSE
    /\ tape = <<>> /\ cursor = 0 /\ run = 1 /\ prev = None
    /\ word = <<>> /\ letter = "a" /\ response = None /\ rpc = "idle"

NonBlank(s) == Strip(s) # <<>>

\* line 118
StrippedLines(f) ==
    LET kept == SelectSeq(f, NonBlank)
    IN [i \in 1..Len(kept) |-> Strip(kept[i])]

InRangeNoUpper(w) == Len(w) >= MinLen

\* line 123
InRange(w) == Len(w) >= MinLen /\ Len(w) <= MaxLen

\* lines 115-125
LoadWords ==
    /\ pc = "load"
    /\ IF StrippedLines(file) = <<>>
       THEN /\ err' = "ValueError"
            /\ pc' = "failed"
            /\ words' = words
       ELSE /\ words' = SelectSeq(StrippedLines(file), InRange)
            /\ pc' = "generate"
            /\ err' = err
    /\ UNCHANGED <<file, n_samples, seed, word_pool, idx, branch, samples,
                   saved, pushed, tape, cursor, run, prev>>
    /\ UNCHANGED renderVars

RECURSIVE Repeat(_, _)
Repeat(s, k) == IF k <= 0 THEN <<>> ELSE s \o Repeat(s, k - 1)

PoolRepeatsShort(n, len) == n \div len

\* line 102: the number of copies of the word list in the pool
PoolRepeats(n, len) == n \div len + 1

\* lines 99-102
GenerateStart ==
    /\ pc = "generate"
    /\ cursor' = 0
    /\ IF Len(words) = 0
       THEN /\ err' = "ZeroDivisionError"
            /\ pc' = "failed"
            /\ word_pool' = word_pool
       ELSE /\ word_pool' = Repeat(words, PoolRepeats(n_samples, Len(words)))
            /\ pc' = "shuffle"
            /\ err' = err
    /\ UNCHANGED <<file, n_samples, seed, words, idx, branch, samples,
                   saved, pushed, tape, run, prev>>
    /\ UNCHANGED renderVars

\* The generator seeded with `seed` yields one fixed stream of outcomes. An
\* outcome the stream has not produced yet is any value; one it has produced
\* (in an earlier run with the same seed) is that value again.
Fresh == cursor >= Len(tape)

Consume(op, at, v) ==
    /\ ~Fresh => (tape[cursor + 1].op = op /\ tape[cursor + 1].val = v)
    /\ tape' = IF Fresh THEN Append(tape, [op |-> op, at |-> at, val |-> v]) ELSE tape
    /\ cursor' = cursor + 1

Perms(n) == {p \in [1..n -> 1..n] : \A i, j \in 1..n : p[i] = p[j] => i = j}

\* line 103: any reordering of the pool; the same one when the same seed
\* shuffles the same pool again
Shuffle ==
    /\ pc = "shuffle"
    /\ \E p \in Perms(Len(word_pool)) :
          /\ word_pool' = [i \in 1..Len(word_pool) |-> word_pool[p[i]]]
          /\ Consume("shuffle", 0, word_pool')
    /\ pc' = "pick"
    /\ UNCHANGED <<file, n_samples, seed, words, err, idx, branch, samples,
                   saved, pushed, run, prev>>
    /\ UNCHANGED renderVars

Min(a, b) == IF a <= b THEN a ELSE b

\* line 107: word_pool[:n_samples]
Taken == SubSeq(word_pool, 1, Min(n_samples, Len(word_pool)))

\* rng.random() in tenths: just below the threshold, and the threshold itself
RandomTenths == {7, 8}
Threshold == 8

\* line 84
PickRandom ==
    /\ pc = "pick"
    /\ idx < Len(Taken)
    /\ branch = None
    /\ \E r \in RandomTenths :
          /\ Consume("random", idx + 1, r)
          /\ branch' = IF r < Threshold THEN "present" ELSE "any"
    /\ UNCHANGED <<pc, file, n_samples, seed, words, err, word_pool, idx,
                   samples, saved, pushed, run, prev>>
    /\ UNCHANGED renderVars

\* list(set(...)): the elements in an order the hash of the process decides
Orders(S) == {o \in [1..Cardinality(S) -> S] : Range(o) = S}

NextIndexSkipping(i) == i + 2

\* lines 105-107: the comprehension moves on to the next word
NextIndex(i) == i + 1

\* lines 85 and 87, and build_sample at line 106
PickChoice ==
    /\ pc = "pick"
    /\ idx < Len(Taken)
    /\ branch # None
    /\ LET w == Taken[idx + 1]
       IN \E seq \in (IF branch = "present" THEN Orders(Range(Lower(w))) ELSE {AZ}) :
             \E k \in 0..(Len(seq) - 1) :
                /\ Consume("choice", idx + 1, k)
                /\ samples' = Append(samples, build_sample(w, seq[k + 1]))
    /\ branch' = None
    /\ idx' = NextIndex(idx)
    /\ UNCHANGED <<pc, file, n_samples, seed, words, err, word_pool,
                   saved, pushed, run, prev>>
    /\ UNCHANGED renderVars

\* lines 105-108 and 160-161: generate_samples returns
GenerateReturn ==
    /\ pc = "pick"
    /\ idx >= Len(Taken)
    /\ pc' = "push"
    /\ UNCHANGED <<file, n_samples, seed, words, err, word_pool, idx, branch,
                   samples, saved, pushed, tape, cursor, run, prev>>
    /\ UNCHANGED renderVars

\* lines 128-135: save_to_disk, then samples[0], then the upload
PushToHub ==
    /\ pc = "push"
    /\ saved' = TRUE
    /\ IF samples = <<>>
       THEN /\ err' = "IndexError"
            /\ pc' = "failed"
            /\ pushed' = pushed
       ELSE /\ pushed' = TRUE
            /\ pc' = "done"
            /\ err' = err
    /\ UNCHANGED <<file, n_samples, seed, words, word_pool, idx, branch,
                   samples, tape, cursor, run, prev>>
    /\ UNCHANGED renderVars

Next ==
    \/ LoadWords
    \/ GenerateStart
    \/ Shuffle
    \/ PickRandom
    \/ PickChoice
    \/ GenerateReturn
    \/ PushToHub

Spec == Init /\ [][Next]_vars

\* ---- the program run a second time on the same file, count and seed ------

\* lines 166-167
Rerun ==
    /\ run = 1
    /\ pc \in {"done", "failed"}
    /\ run' = 2
    /\ prev' = [samples |-> samples, err |-> err]
    /\ pc' = "load"
    /\ words' = <<>> /\ err' = None /\ word_pool' = <<>> /\ idx' = 0
    /\ branch' = None /\ samples' = <<>> /\ saved' = FALSE /\ pushed' = FALSE
    /\ cursor' = 0
    /\ UNCHANGED <<file, n_samples, seed, tape>>
    /\ UNCHANGED renderVars

NextTwoRuns ==
    \/ LoadWords
    \/ GenerateStart
    \/ Shuffle
    \/ PickRandom
    \/ PickChoice
    \/ GenerateReturn
    \/ PushToHub
    \/ Rerun

SpecTwoRuns == Init /\ [][NextTwoRuns]_vars

\* ---- properties of the renderer (SpecRender) ----------------------------

Rendered == rpc = "done"

\* the positions of w whose lowercase form is the lowercase form of l
TrueCount(w, l) ==
    Cardinality({i \in 1..Len(w) : Lower(<<w[i]>>) = Lower(<<l>>)})

\* C1: the count on the last position line, repeated in the answer line, is
\* the number of positions of the word whose lowercase form equals the
\* lowercase form of the letter.
C1_FinalCountIsTrueCount ==
    Rendered =>
        /\ Len(response.lines) = Len(word)
        /\ response.answer.count = TrueCount(word, letter)
        /\ word # <<>> =>
              response.lines[Len(word)].count = TrueCount(word, letter)

C1_Witness ==
    /\ Rendered
    /\ word = <<"a", "b", "A">>
    /\ letter = "A"
    /\ response.lines[3].count = 2

\* C2: from one position line to the next (0 before position 1) the count
\* rises by exactly 1 on a MATCH line and stays the same on a "not" line.
C2_RunningCount ==
    Rendered =>
        \A k \in 1..Len(response.lines) :
            LET before == IF k = 1 THEN 0 ELSE response.lines[k - 1].count
                line == response.lines[k]
            IN /\ line.verdict \in {<<"MATCH">>, <<"not", letter>>}
               /\ line.verdict = <<"MATCH">> => line.count = before + 1
               /\ line.verdict = <<"not", letter>> => line.count = before

C2_Witness ==
    /\ Rendered
    /\ Len(response.lines) = 3
    /\ response.lines[1].verdict = <<"MATCH">>
    /\ response.lines[2].verdict = <<"not", letter>>
    /\ response.lines[2].count = 1
    /\ response.lines[3].verdict = <<"MATCH">>

\* C8: the answer line says "time" exactly when the total is 1, and "times"
\* for every other total, 0 included.
C8_Pluralization ==
    Rendered => (response.answer.unit = "time" <=> response.answer.count = 1)
                /\ response.answer.unit \in {"time", "times"}

C8_Witness ==
    /\ Rendered
    /\ word # <<>>
    /\ response.answer.count = 0
    /\ response.answer.unit = "times"

\* ---- properties of the sampler and the driver ---------------------------

SampleWord(s) == s.messages[1].content.word
SampleLetter(s) == s.messages[1].content.letter
SampleCount(s) == s.messages[2].content.answer.count

LoadReturned == pc \notin {"load", "idle"} /\ err # "ValueError"
Generated == pc \in {"push", "done"} \/ (pc = "failed" /\ err = "IndexError")

Occurrences(w) == Cardinality({k \in 1..Len(samples) : SampleWord(samples[k]) = w})

\* C3: two runs on the same word list, N and seed produce the same samples.
C3_Deterministic ==
    (run = 2 /\ pc = "done") => samples = prev.samples

\* C4: for N >= |words| every input word is output at least floor(N/|words|)
\* and at most ceil(N/|words|) times (stated for lists without repeats).
C4_Coverage ==
    (/\ Generated
     /\ words # <<>>
     /\ Cardinality(Range(words)) = Len(words)
     /\ n_samples >= Len(words)) =>
        \A w \in Range(words) :
            /\ Occurrences(w) >= n_samples \div Len(words)
            /\ Occurrences(w) <= (n_samples + Len(words) - 1) \div Len(words)

\* C5: on a non-empty word list and any N >= 0 the pool holds at least N
\* words and generate_samples returns exactly N samples, each a word of the
\* list paired with one letter.
C5_ExactlyN ==
    /\ (pc \in {"shuffle", "pick"} \/ Generated) =>
          /\ words # <<>>
          /\ Len(word_pool) >= n_samples
    /\ Generated =>
          /\ Len(samples) = n_samples
          /\ \A k \in 1..Len(samples) :
                /\ SampleWord(samples[k]) \in Range(words)
                /\ SampleLetter(samples[k]) \in
                      Range(Lower(SampleWord(samples[k]))) \cup Range(AZ)

C5_Witness ==
    /\ pc = "done"
    /\ n_samples = 2
    /\ Len(words) = 2
    /\ Len(samples) = 2

\* C6: a word list that is empty after the length filter makes the load fail
\* with its own error, before sampling, with nothing saved or uploaded.
C6_EmptyRejectedByLoad ==
    (pc # "load" /\ SelectSeq(StrippedLines(file), InRange) = <<>>) =>
        /\ pc \in {"generate", "failed"}
        /\ pc = "failed" => err = "ValueError"
        /\ ~saved /\ ~pushed

\* C7: a letter drawn on the 0.8 branch is a lowercase character of the word
\* and the sample reports a count of at least 1; a count of 0 comes only from
\* the 0.2 branch.
C7_PresentBranchCounts ==
    \A k \in 1..Len(samples) :
        /\ tape[2 * k].val < Threshold =>
              /\ SampleLetter(samples[k]) \in Range(Lower(SampleWord(samples[k])))
              /\ SampleCount(samples[k]) >= 1
        /\ SampleCount(samples[k]) = 0 => tape[2 * k].val >= Threshold

TimesIn(w, s) == Cardinality({i \in 1..Len(s) : s[i] = w})

WordsAreFilteredLines ==
    \A i \in 1..Len(words) :
        /\ words[i] # <<>>
        /\ \E j \in 1..Len(file) : words[i] = Strip(file[j])
        /\ Len(words[i]) >= MinLen
        /\ Len(words[i]) <= MaxLen

\* C9 as stated: the returned words are trimmed non-blank lines of length in
\* [3,20], and none is returned twice.
C9_FilteredAndDistinct ==
    LoadReturned =>
        /\ WordsAreFilteredLines
        /\ \A i, j \in 1..Len(words) : words[i] = words[j] => i = j

\* C9 amended: the returned words are trimmed non-blank lines of length in
\* [3,20]; a word the file repeats is returned once per line holding it.
C9_FilteredKeepingRepeats ==
    LoadReturned =>
        /\ WordsAreFilteredLines
        /\ \A i \in 1..Len(words) :
              TimesIn(words[i], words) =
                  Cardinality({j \in 1..Len(file) : Strip(file[j]) = words[i]})

C9_Witness ==
    /\ pc = "generate"
    /\ words = <<wAbb, wAbb>>
    /\ Len(file) = 3

\* C10: the generator is consumed in one fixed order: the shuffle first,
\* then for each output word in turn its one letter draw (rng.random, then
\* rng.choice), the draw for a word ending before the next one begins.
C10_SequentialConsumption ==
    /\ cursor = Len(tape)
    /\ \A k \in 1..Len(tape) :
          IF k = 1
          THEN tape[k].op = "shuffle"
          ELSE /\ tape[k].op = (IF k % 2 = 0 THEN "random" ELSE "choice")
               /\ tape[k].at = k \div 2
    /\ tape # <<>> => Len(samples) = (Len(tape) - 1) \div 2
    /\ tape = <<>> => samples = <<>>
    /\ Generated => Len(tape) = 1 + 2 * n_samples

C10_Witness ==
    /\ pc = "done"
    /\ n_samples = 2
    /\ Len(tape) = 5
    /\ tape[5].op = "choice"
    /\ tape[5].at = 2

====
